---- MODULE Spec2Model ----
(***************************************************************************)
(* RecipeApp: the recipe matcher, ranker, selector and meal planner of     *)
(* recipe_app.py, the command-line flow main(), and the two POST handlers  *)
(* of web_app.py with the text normalisation of vision.py.                 *)
(*                                                                         *)
(* A Python str is a sequence of one-character strings, so that lower(),   *)
(* strip(), split() and int() are computed character by character.         *)
(***************************************************************************)
EXTENDS Integers, Sequences, FiniteSets, TLC

VARIABLES
    pc,          \* position of the running entry point
    recipes,     \* the recipe list handed to the operation (catalog or chosen list)
    available,   \* the available-ingredient list
    days,        \* the days argument of create_meal_plan
    selection,   \* the line input() reads at the selection prompt, or end of input
    console,     \* lines written to standard output, oldest first
    suggestions, \* list of <<recipe, missing>> pairs
    chosen,      \* list of Recipe returned by choose_recipes
    shopping,    \* last list returned by missing_ingredients / generate_shopping_list
    plan,        \* dict day -> Recipe, as a list of <<day, recipe>> in insertion order
    error,       \* exception escaping the operation, "none" when it returned
    planner_calls, \* arguments of every create_meal_plan call made by main()
    request,     \* the HTTP request being handled
    response     \* what the handler passed to render_template_string

vars == <<pc, recipes, available, days, selection, console, suggestions, chosen,
          shopping, plan, error, planner_calls, request, response>>

---------------------------------------------------------------------------
(* Sequences and characters *)

Min(a, b) == IF a <= b THEN a ELSE b

Max(a, b) == IF a >= b THEN a ELSE b

\* All sequences over S of length 0..n
SeqsUpTo(S, n) == UNION {[1..k -> S] : k \in 0..n}

Range(s) == {s[i] : i \in DOMAIN s}

UpperChars == <<"A","B","C","D","E","F","G","H","I","J","K","L","M",
                "N","O","P","Q","R","S","T","U","V","W","X","Y","Z">>

LowerChars == <<"a","b","c","d","e","f","g","h","i","j","k","l","m",
                "n","o","p","q","r","s","t","u","v","w","x","y","z">>

DigitChars == <<"0","1","2","3","4","5","6","7","8","9">>

Whitespace == {" ", "\t", "\n", "\r"}

\* str.lower() on one character
LowerChar(c) ==
    IF \E i \in DOMAIN UpperChars : UpperChars[i] = c
    THEN LowerChars[CHOOSE i \in DOMAIN UpperChars : UpperChars[i] = c]
    ELSE c

\* str.lower()
lower(s) == [i \in DOMAIN s |-> LowerChar(s[i])]

\* str.strip(): drop leading and trailing whitespace
RECURSIVE lstrip(_)
lstrip(s) == IF s # <<>> /\ Head(s) \in Whitespace THEN lstrip(Tail(s)) ELSE s

RECURSIVE rstrip(_)
rstrip(s) ==
    IF s # <<>> /\ s[Len(s)] \in Whitespace
    THEN rstrip(SubSeq(s, 1, Len(s) - 1))
    ELSE s

strip(s) == rstrip(lstrip(s))

\* str.split(','): the fields between commas, empty fields included
RECURSIVE SplitAcc(_, _, _)
SplitAcc(s, cur, out) ==
    IF s = <<>> THEN Append(out, cur)
    ELSE IF Head(s) = "," THEN SplitAcc(Tail(s), <<>>, Append(out, cur))
    ELSE SplitAcc(Tail(s), Append(cur, Head(s)), out)

split(s) == SplitAcc(s, <<>>, <<>>)

---------------------------------------------------------------------------
(* recipe_app.py: Recipe and the matcher *)

\* @dataclass Recipe (instructions play no part in any operation)
Recipe(name, ingredients) == [name |-> name, ingredients |-> ingredients]

\* Recipe.missing_ingredients, the faulty variant that compares without lower-casing
\* the recipe's ingredient
missing_ingredients_case(recipe, avail) ==
    LET available_set == {lower(avail[i]) : i \in DOMAIN avail}
    IN  SelectSeq(recipe.ingredients, LAMBDA ing : ing \notin available_set)

\* Recipe.missing_ingredients, the faulty variant that does not lower-case the
\* available list
missing_ingredients_raw(recipe, avail) ==
    LET available_set == {avail[i] : i \in DOMAIN avail}
    IN  SelectSeq(recipe.ingredients, LAMBDA ing : lower(ing) \notin available_set)

\* Recipe.missing_ingredients
missing_ingredients(recipe, avail) ==
    LET available_set == {lower(avail[i]) : i \in DOMAIN avail}
    IN  SelectSeq(recipe.ingredients, LAMBDA ing : lower(ing) \notin available_set)

\* generate_shopping_list
generate_shopping_list(recipe, avail) == missing_ingredients(recipe, avail)

---------------------------------------------------------------------------
(* recipe_app.py: catalog and ranker *)

\* load_recipes: the fixed catalog
load_recipes ==
    <<
        Recipe("Pasta with Tomato Sauce",
            << <<"p","a","s","t","a">>,
               <<"t","o","m","a","t","o">>,
               <<"g","a","r","l","i","c">>,
               <<"o","l","i","v","e"," ","o","i","l">>,
               <<"s","a","l","t">> >>),
        Recipe("Omelette",
            << <<"e","g","g","s">>,
               <<"b","u","t","t","e","r">>,
               <<"c","h","e","e","s","e">>,
               <<"s","a","l","t">>,
               <<"p","e","p","p","e","r">> >>),
        Recipe("Fresh Salad",
            << <<"l","e","t","t","u","c","e">>,
               <<"t","o","m","a","t","o">>,
               <<"c","u","c","u","m","b","e","r">>,
               <<"o","l","i","v","e"," ","o","i","l">>,
               <<"l","e","m","o","n">>,
               <<"s","a","l","t">> >>),
        Recipe("Grilled Cheese Sandwich",
            << <<"b","r","e","a","d">>,
               <<"c","h","e","e","s","e">>,
               <<"b","u","t","t","e","r">> >>)
    >>

\* key=lambda x: len(x[1])
SortKey(x) == Len(x[2])

\* Faulty variant of the insertion step: the new pair goes before the pairs of equal key
InsertByKeyBefore(sorted, x) ==
    LET n == Cardinality({i \in DOMAIN sorted : SortKey(sorted[i]) < SortKey(x)})
    IN  SubSeq(sorted, 1, n) \o <<x>> \o SubSeq(sorted, n + 1, Len(sorted))

\* One step of the stable sort: the new pair goes after every pair whose key
\* is not larger (sorted is ordered by key, so these form a prefix)
InsertByKey(sorted, x) ==
    LET n == Cardinality({i \in DOMAIN sorted : SortKey(sorted[i]) <= SortKey(x)})
    IN  SubSeq(sorted, 1, n) \o <<x>> \o SubSeq(sorted, n + 1, Len(sorted))

\* list.sort(key=...): stable, ascending
RECURSIVE SortAcc(_, _)
SortAcc(rest, sorted) ==
    IF rest = <<>> THEN sorted
    ELSE SortAcc(Tail(rest), InsertByKey(sorted, Head(rest)))

sort(s) == SortAcc(s, <<>>)

\* suggest_recipes
suggest_recipes(rs, avail) ==
    sort([i \in DOMAIN rs |-> <<rs[i], missing_ingredients(rs[i], avail)>>])

\* print_suggestions: the lines it prints
print_suggestions(sugg) ==
    <<<<"Recipe Suggestions:">>>>
    \o [i \in DOMAIN sugg |->
          <<"suggestion", i, sugg[i][1].name,
            IF sugg[i][2] = <<>> THEN "Ready to cook" ELSE "Missing",
            Len(sugg[i][2])>>]
    \o <<<<"">>>>

---------------------------------------------------------------------------
(* recipe_app.py: selector *)

\* A line of standard input, or the end of input
Line(text) == [eof |-> FALSE, text |-> text]

EOF == [eof |-> TRUE, text |-> <<>>]

IsDigit(c) == \E i \in DOMAIN DigitChars : DigitChars[i] = c

DigitValue(c) == (CHOOSE i \in DOMAIN DigitChars : DigitChars[i] = c) - 1

\* The digit part of an int() literal: digits, single underscores between them
IsIntBody(u) ==
    /\ u # <<>>
    /\ IsDigit(u[1])
    /\ IsDigit(u[Len(u)])
    /\ \A i \in DOMAIN u : IsDigit(u[i]) \/ u[i] = "_"
    /\ \A i \in 1..(Len(u) - 1) : ~(u[i] = "_" /\ u[i + 1] = "_")

Unsigned(t) == IF t # <<>> /\ t[1] \in {"+", "-"} THEN Tail(t) ELSE t

\* int(part) raises ValueError exactly when this is FALSE
IsInt(part) == IsIntBody(Unsigned(strip(part)))

RECURSIVE DigitsValue(_, _)
DigitsValue(u, acc) ==
    IF u = <<>> THEN acc
    ELSE IF Head(u) = "_" THEN DigitsValue(Tail(u), acc)
    ELSE DigitsValue(Tail(u), 10 * acc + DigitValue(Head(u)))

\* int(part) when it does not raise
int(part) ==
    LET t == strip(part)
        v == DigitsValue(Unsigned(t), 0)
    IN  IF t[1] = "-" THEN 0 - v ELSE v

\* parts = [p.strip() for p in selection.split(',') if p.strip()]
Parts(sel) ==
    LET fields == split(sel)
        kept == SelectSeq(fields, LAMBDA p : strip(p) # <<>>)
    IN  [i \in DOMAIN kept |-> strip(kept[i])]

PromptSelect == <<"Enter the numbers of the recipes you want to cook (comma separated), or press Enter to skip: ">>

\* Faulty variant of the parsing loop: the first invalid token ends the loop
RECURSIVE ParseLoopAbort(_, _, _, _)
ParseLoopAbort(parts, n, indices, out) ==
    IF parts = <<>> THEN [indices |-> indices, out |-> out]
    ELSE LET part == Head(parts) IN
         IF IsInt(part)
         THEN IF 1 <= int(part) /\ int(part) <= n
              THEN ParseLoopAbort(Tail(parts), n, Append(indices, int(part) - 1), out)
              ELSE [indices |-> indices,
                    out |-> Append(out, <<"Ignoring invalid recipe number: ", int(part)>>)]
         ELSE [indices |-> indices,
               out |-> Append(out, <<"Ignoring invalid input: ", part>>)]

\* Faulty variant of the parsing loop: an out-of-range number is skipped unreported
RECURSIVE ParseLoopSilent(_, _, _, _)
ParseLoopSilent(parts, n, indices, out) ==
    IF parts = <<>> THEN [indices |-> indices, out |-> out]
    ELSE LET part == Head(parts) IN
         IF IsInt(part)
         THEN IF 1 <= int(part) /\ int(part) <= n
              THEN ParseLoopSilent(Tail(parts), n, Append(indices, int(part) - 1), out)
              ELSE ParseLoopSilent(Tail(parts), n, indices, out)
         ELSE ParseLoopSilent(Tail(parts), n, indices,
                  Append(out, <<"Ignoring invalid input: ", part>>))

\* for part in parts: try int(part) ... (the 0-based indices kept and the
\* warning lines printed, n = len(suggestions))
RECURSIVE ParseLoop(_, _, _, _)
ParseLoop(parts, n, indices, out) ==
    IF parts = <<>> THEN [indices |-> indices, out |-> out]
    ELSE LET part == Head(parts) IN
         IF IsInt(part)
         THEN IF 1 <= int(part) /\ int(part) <= n
              THEN ParseLoop(Tail(parts), n, Append(indices, int(part) - 1), out)
              ELSE ParseLoop(Tail(parts), n, indices,
                       Append(out, <<"Ignoring invalid recipe number: ", int(part)>>))
         ELSE ParseLoop(Tail(parts), n, indices,
                  Append(out, <<"Ignoring invalid input: ", part>>))

\* Faulty variant of the deduplication loop: no seen-set, every index is appended
RECURSIVE DedupLoopNone(_, _, _, _)
DedupLoopNone(indices, sugg, seen, result) ==
    IF indices = <<>> THEN result
    ELSE DedupLoopNone(Tail(indices), sugg, seen,
             Append(result, sugg[Head(indices) + 1][1]))

\* Deduplicate while preserving order (indices are 0-based)
RECURSIVE DedupLoop(_, _, _, _)
DedupLoop(indices, sugg, seen, result) ==
    IF indices = <<>> THEN result
    ELSE LET recipe == sugg[Head(indices) + 1][1] IN
         IF recipe.name \notin seen
         THEN DedupLoop(Tail(indices), sugg, seen \cup {recipe.name},
                  Append(result, recipe))
         ELSE DedupLoop(Tail(indices), sugg, seen, result)

\* choose_recipes: the list returned and the lines written to the console,
\* given the line that input() reads
choose_recipes(sugg, line) ==
    IF line.eof THEN [chosen |-> <<>>, out |-> <<PromptSelect>>]
    ELSE IF strip(line.text) = <<>> THEN [chosen |-> <<>>, out |-> <<PromptSelect>>]
    ELSE LET parsed == ParseLoop(Parts(line.text), Len(sugg), <<>>, <<>>) IN
         [chosen |-> DedupLoop(parsed.indices, sugg, {}, <<>>),
          out |-> <<PromptSelect>> \o parsed.out]

---------------------------------------------------------------------------
(* recipe_app.py: meal planner *)

DayNames == <<"Monday", "Tuesday", "Wednesday", "Thursday",
              "Friday", "Saturday", "Sunday">>

\* s[:n]: a negative n counts from the end of the list
SliceTo(s, n) ==
    IF n >= 0 THEN SubSeq(s, 1, Min(n, Len(s)))
    ELSE SubSeq(s, 1, Max(Len(s) + n, 0))

\* plan[day] = recipe on an insertion-ordered dict
DictSet(d, k, v) ==
    IF \E j \in DOMAIN d : d[j][1] = k
    THEN [j \in DOMAIN d |-> IF d[j][1] = k THEN <<k, v>> ELSE d[j]]
    ELSE Append(d, <<k, v>>)

\* for i, day in enumerate(day_names): plan[day] = recipes[i % len(recipes)]
\* (i is 0-based; i % 0 raises ZeroDivisionError)
RECURSIVE PlanLoop(_, _, _, _)
PlanLoop(day_names, i, rs, p) ==
    IF i >= Len(day_names) THEN [error |-> "none", plan |-> p]
    ELSE IF Len(rs) = 0 THEN [error |-> "ZeroDivisionError", plan |-> <<>>]
    ELSE PlanLoop(day_names, i + 1, rs,
             DictSet(p, day_names[i + 1], rs[(i % Len(rs)) + 1]))

\* create_meal_plan: the plan returned, or the exception raised
create_meal_plan(rs, d) == PlanLoop(SliceTo(DayNames, d), 0, rs, <<>>)

---------------------------------------------------------------------------
(* vision.py: text normalisation *)

\* Letters carrying a combining mark after NFD, and their base letters
AccentedChars == <<"a-acute", "e-acute", "i-acute", "o-acute", "u-acute", "n-tilde">>

BaseChars == <<"a", "e", "i", "o", "u", "n">>

\* unicodedata.normalize('NFD', c) without the characters of category Mn
StripAccent(c) ==
    IF \E i \in DOMAIN AccentedChars : AccentedChars[i] = c
    THEN BaseChars[CHOOSE i \in DOMAIN AccentedChars : AccentedChars[i] = c]
    ELSE c

IsAlnum(c) ==
    \/ IsDigit(c)
    \/ \E i \in DOMAIN LowerChars : LowerChars[i] = c
    \/ \E i \in DOMAIN UpperChars : UpperChars[i] = c

\* re.split(r'[^a-zA-Z0-9]+', s) without its empty tokens
RECURSIVE TokensAcc(_, _, _)
TokensAcc(s, cur, out) ==
    IF s = <<>> THEN (IF cur = <<>> THEN out ELSE Append(out, cur))
    ELSE IF IsAlnum(Head(s)) THEN TokensAcc(Tail(s), Append(cur, Head(s)), out)
    ELSE TokensAcc(Tail(s), <<>>, IF cur = <<>> THEN out ELSE Append(out, cur))

INGREDIENT_SYNONYMS ==
    {
        << <<"h","a","r","i","n","a">>, <<"f","l","o","u","r">> >>,
        << <<"h","u","e","v","o">>, <<"e","g","g">> >>,
        << <<"h","u","e","v","o","s">>, <<"e","g","g">> >>,
        << <<"l","e","c","h","e">>, <<"m","i","l","k">> >>,
        << <<"a","z","u","c","a","r">>, <<"s","u","g","a","r">> >>,
        << <<"a","c","e","i","t","e">>, <<"o","i","l">> >>,
        << <<"s","a","l">>, <<"s","a","l","t">> >>,
        << <<"q","u","e","s","o">>, <<"c","h","e","e","s","e">> >>,
        << <<"t","o","m","a","t","e">>, <<"t","o","m","a","t","o">> >>,
        << <<"t","o","m","a","t","e","s">>, <<"t","o","m","a","t","o">> >>,
        << <<"c","e","b","o","l","l","a">>, <<"o","n","i","o","n">> >>,
        << <<"a","j","o">>, <<"g","a","r","l","i","c">> >>,
        << <<"p","i","m","i","e","n","t","a">>, <<"p","e","p","p","e","r">> >>,
        << <<"m","a","n","t","e","q","u","i","l","l","a">>, <<"b","u","t","t","e","r">> >>,
        << <<"m","a","n","t","e","c","a">>, <<"b","u","t","t","e","r">> >>,
        << <<"p","o","l","l","o">>, <<"c","h","i","c","k","e","n">> >>,
        << <<"c","a","r","n","e">>, <<"b","e","e","f">> >>,
        << <<"r","e","s">>, <<"b","e","e","f">> >>,
        << <<"y","o","g","u","r">>, <<"y","o","g","u","r","t">> >>,
        << <<"y","o","g","u","r","t">>, <<"y","o","g","u","r","t">> >>,
        << <<"f","r","e","s","a">>, <<"s","t","r","a","w","b","e","r","r","i","e","s">> >>,
        << <<"f","r","e","s","a","s">>, <<"s","t","r","a","w","b","e","r","r","i","e","s">> >>,
        << <<"p","l","a","t","a","n","o">>, <<"b","a","n","a","n","a">> >>,
        << <<"p","l","a","t","a","n","o","s">>, <<"b","a","n","a","n","a">> >>
    }

\* INGREDIENT_SYNONYMS.get(token, token)
Canonical(token) ==
    IF \E e \in INGREDIENT_SYNONYMS : e[1] = token
    THEN (CHOOSE e \in INGREDIENT_SYNONYMS : e[1] = token)[2]
    ELSE token

\* normalize_ingredients
normalize_ingredients(text) ==
    LET text_norm == [i \in DOMAIN text |-> StripAccent(text[i])]
        tokens == TokensAcc(lower(text_norm), <<>>, <<>>)
    IN  [i \in DOMAIN tokens |-> Canonical(tokens[i])]

---------------------------------------------------------------------------
(* web_app.py: the handlers *)

\* The body of suggest_recipes run over a list of str: the first element has
\* no missing_ingredients attribute; an empty list is sorted and returned
SuggestRecipesOverStr(strs, avail) ==
    IF strs = <<>> THEN [error |-> "none", value |-> sort(<<>>)]
    ELSE [error |-> "AttributeError", value |-> <<>>]

\* render_template_string(INDEX_HTML, suggestions=s)
Rendered(s) == [status |-> 200, none |-> FALSE, suggestions |-> s]

\* render_template_string(INDEX_HTML, suggestions=None)
RenderedNone == [status |-> 200, none |-> TRUE, suggestions |-> <<>>]

\* The reply Flask gives for an exception escaping the handler
ServerError == [status |-> 500, none |-> TRUE, suggestions |-> <<>>]

\* Lines 70-73 and 85-88: normalise, load, rank with the arguments in the
\* order the handlers pass them (ingredients first, catalog second), render
RankAndRender(text) ==
    LET ingredients == normalize_ingredients(text)
        rs == load_recipes
        r == SuggestRecipesOverStr(ingredients, rs)
    IN  IF r.error = "none"
        THEN [error |-> "none", response |-> Rendered(r.value)]
        ELSE [error |-> r.error, response |-> ServerError]

---------------------------------------------------------------------------
(* recipe_app.py: main() *)

PromptIngredients == <<"Enter the ingredients you have (comma separated): ">>

PromptPlan == <<"Would you like to generate a weekly meal plan from these recipes? (y/n): ">>

\* available = [item.strip().lower() for item in raw.split(',') if item.strip()]
\* with raw = "" at end of input
ParseAvailable(line) ==
    LET raw == IF line.eof THEN <<>> ELSE line.text
        kept == SelectSeq(split(raw), LAMBDA item : strip(item) # <<>>)
    IN  [i \in DOMAIN kept |-> lower(strip(kept[i]))]

\* Lines 195-202: the shopping list printed for one chosen recipe
ShoppingLines(recipe, avail) ==
    LET missing == generate_shopping_list(recipe, avail) IN
    <<<<"Shopping list for ", recipe.name>>>>
    \o (IF missing # <<>>
        THEN [i \in DOMAIN missing |-> <<" - ", missing[i]>>]
        ELSE <<<<"You have everything you need!">>>>)

RECURSIVE AllShoppingLines(_, _)
AllShoppingLines(rs, avail) ==
    IF rs = <<>> THEN <<>>
    ELSE ShoppingLines(Head(rs), avail) \o AllShoppingLines(Tail(rs), avail)

\* Faulty variant of the guard: the meal-plan question is asked whatever was chosen
AsksForPlanAlways(ch) == TRUE

\* Line 207, if chosen: a list is true when it is not empty
AsksForPlan(ch) == ch # <<>>

\* answer.strip().lower().startswith('y'), with answer = "n" at end of input
SaysYes(line) ==
    LET answer == IF line.eof THEN <<"n">> ELSE line.text
        a == lower(strip(answer))
    IN  a # <<>> /\ a[1] = "y"

\* Lines 215-216: the plan as printed
PlanLines(p) == [i \in DOMAIN p |-> <<p[i][1], p[i][2].name>>]

---------------------------------------------------------------------------
(* Inputs *)

\* Longest selection line typed at the selection prompt
MaxSelectionLen == 5

\* Longest selection line typed in a run of main()
MaxMainSelectionLen == 3

\* Longest ingredient list of a recipe handed to the matcher
MaxIngredients == 3

\* Longest available list handed to the matcher
MaxAvailable == 2

\* Longest catalog handed to the ranker
MaxCatalog == 3

\* Longest recipe list handed to the planner
MaxPlanRecipes == 3

\* Largest magnitude of the days argument
MaxDays == 9

\* Longest text posted to a web handler or read from an image
MaxTextLen == 3

Salt == <<"s","a","l","t">>

SaltCap == <<"S","a","l","t">>

Egg == <<"e","g","g">>

EggUpper == <<"E","G","G">>

Words == {Salt, SaltCap, Egg, EggUpper}

NoLine == Line(<<>>)

NoRequest == [route |-> "none", method |-> "none", has_field |-> FALSE,
              text |-> <<>>, has_file |-> FALSE]

NoResponse == [status |-> 0, none |-> TRUE, suggestions |-> <<>>]

\* Recipes for the ranker, named by catalog position
RankerIngredientLists == SeqsUpTo({Salt, EggUpper}, 2)

RankerNames == <<"R1", "R2", "R3", "R4", "R5">>

RankerCatalogs ==
    {[i \in DOMAIN ings |-> Recipe(RankerNames[i], ings[i])] :
        ings \in SeqsUpTo(RankerIngredientLists, MaxCatalog)}

RankerAvailable == {<<>>, <<SaltCap>>, <<Egg>>, <<Egg, Salt>>}

\* Suggestion lists for the selector; two recipes of the second share a name
SelectorSuggestions ==
    { <<>>,
      suggest_recipes(<<Recipe("X", <<Salt>>), Recipe("Y", <<Egg, Salt>>)>>, <<>>),
      suggest_recipes(<<Recipe("X", <<Salt>>), Recipe("X", <<Egg, Salt>>),
                        Recipe("Y", <<Egg, Salt, Salt>>)>>, <<>>) }

SelectionChars == {"1", "2", "3", ",", " ", "x"}

SelectionLines == {Line(txt) : txt \in SeqsUpTo(SelectionChars, MaxSelectionLen)} \cup {EOF}

PlannerRecipes == {Recipe("X", <<Salt>>), Recipe("Y", <<Egg>>), Recipe("Z", <<>>)}

WebChars == {"s", "a", "L", ",", " ", "e-acute"}

WebTexts == SeqsUpTo(WebChars, MaxTextLen)

MainIngredientLines ==
    { Line(<<>>),
      Line(<<"s","a","l","t">>),
      Line(<<"B","r","e","a","d",","," ","C","H","E","E","S","E",",","b","u","t","t","e","r">>),
      Line(<<" ","e","g","g","s",",",",","S","a","l","t"," ",",","p","e","p","p","e","r",",","b","u","t","t","e","r",",","c","h","e","e","s","e">>),
      EOF }

MainSelectionChars == {"1", "4", "0", "-", ",", " ", "x"}

MainSelectionLines ==
    {Line(txt) : txt \in SeqsUpTo(MainSelectionChars, MaxMainSelectionLen)} \cup {EOF}

MainAnswerLines ==
    { Line(<<"y">>),
      Line(<<"Y","e","s">>),
      Line(<<" ","n">>),
      Line(<<>>),
      EOF }

---------------------------------------------------------------------------
(* State machines *)

\* What every entry point starts from
Idle ==
    /\ pc = "start"
    /\ console = <<>>
    /\ suggestions = <<>>
    /\ chosen = <<>>
    /\ shopping = <<>>
    /\ plan = <<>>
    /\ error = "none"
    /\ planner_calls = <<>>
    /\ response = NoResponse

(* Matcher: one recipe and an available list *)
InitMatcher ==
    /\ Idle
    /\ recipes \in {<<Recipe("R", ings)>> : ings \in SeqsUpTo(Words, MaxIngredients)}
    /\ available \in SeqsUpTo(Words, MaxAvailable)
    /\ days = 0
    /\ selection = NoLine
    /\ request = NoRequest

CallMissingIngredients ==
    /\ pc = "start"
    /\ shopping' = missing_ingredients(recipes[1], available)
    /\ pc' = "missing_ingredients"
    /\ UNCHANGED <<recipes, available, days, selection, console, suggestions,
                   chosen, plan, error, planner_calls, request, response>>

CallGenerateShoppingList ==
    /\ pc = "start"
    /\ shopping' = generate_shopping_list(recipes[1], available)
    /\ pc' = "generate_shopping_list"
    /\ UNCHANGED <<recipes, available, days, selection, console, suggestions,
                   chosen, plan, error, planner_calls, request, response>>

NextMatcher == CallMissingIngredients \/ CallGenerateShoppingList

SpecMatcher == InitMatcher /\ [][NextMatcher]_vars

(* Ranker: a catalog and an available list *)
InitRanker ==
    /\ Idle
    /\ recipes \in RankerCatalogs
    /\ available \in RankerAvailable
    /\ days = 0
    /\ selection = NoLine
    /\ request = NoRequest

CallSuggestRecipes ==
    /\ pc = "start"
    /\ suggestions' = suggest_recipes(recipes, available)
    /\ pc' = "suggest_recipes"
    /\ UNCHANGED <<recipes, available, days, selection, console, chosen,
                   shopping, plan, error, planner_calls, request, response>>

NextRanker == CallSuggestRecipes

SpecRanker == InitRanker /\ [][NextRanker]_vars

(* Selector: a suggestion list and the line waiting on standard input *)
InitSelector ==
    /\ pc = "start"
    /\ console = <<>>
    /\ suggestions \in SelectorSuggestions
    /\ selection \in SelectionLines
    /\ chosen = <<>>
    /\ shopping = <<>>
    /\ plan = <<>>
    /\ error = "none"
    /\ planner_calls = <<>>
    /\ response = NoResponse
    /\ recipes = <<>>
    /\ available = <<>>
    /\ days = 0
    /\ request = NoRequest

CallChooseRecipes ==
    /\ pc = "start"
    /\ LET r == choose_recipes(suggestions, selection) IN
          /\ chosen' = r.chosen
          /\ console' = console \o r.out
    /\ pc' = "choose_recipes"
    /\ UNCHANGED <<recipes, available, days, selection, suggestions, shopping,
                   plan, error, planner_calls, request, response>>

NextSelector == CallChooseRecipes

SpecSelector == InitSelector /\ [][NextSelector]_vars

(* Planner: a recipe list and a number of days *)
InitPlanner ==
    /\ Idle
    /\ recipes \in SeqsUpTo(PlannerRecipes, MaxPlanRecipes)
    /\ days \in (0 - MaxDays)..MaxDays
    /\ available = <<>>
    /\ selection = NoLine
    /\ request = NoRequest

CallCreateMealPlan ==
    /\ pc = "start"
    /\ LET r == create_meal_plan(recipes, days) IN
          /\ plan' = r.plan
          /\ error' = r.error
          /\ pc' = IF r.error = "none" THEN "create_meal_plan" ELSE "raised"
    /\ UNCHANGED <<recipes, available, days, selection, console, suggestions,
                   chosen, shopping, planner_calls, request, response>>

NextPlanner == CallCreateMealPlan

SpecPlanner == InitPlanner /\ [][NextPlanner]_vars

(* Web: one request to / or /scan; text is the posted field, or what OCR *)
(* reads from the uploaded image *)
Requests ==
    {[route |-> "/", method |-> "GET", has_field |-> FALSE, text |-> <<>>,
      has_file |-> FALSE],
     [route |-> "/", method |-> "POST", has_field |-> FALSE, text |-> <<>>,
      has_file |-> FALSE],
     [route |-> "/scan", method |-> "POST", has_field |-> FALSE, text |-> <<>>,
      has_file |-> FALSE]}
    \cup {[route |-> "/", method |-> "POST", has_field |-> TRUE, text |-> txt,
           has_file |-> FALSE] : txt \in WebTexts}
    \cup {[route |-> "/scan", method |-> "POST", has_field |-> FALSE, text |-> txt,
           has_file |-> TRUE] : txt \in WebTexts}

InitWeb ==
    /\ Idle
    /\ request \in Requests
    /\ recipes = <<>>
    /\ available = <<>>
    /\ days = 0
    /\ selection = NoLine

\* index, GET
IndexGet ==
    /\ pc = "start"
    /\ request.route = "/"
    /\ request.method = "GET"
    /\ response' = RenderedNone
    /\ pc' = "responded"
    /\ UNCHANGED <<recipes, available, days, selection, console, suggestions,
                   chosen, shopping, plan, error, planner_calls, request>>

\* index, POST: raw = request.form.get("ingredients", "")
IndexPost ==
    /\ pc = "start"
    /\ request.route = "/"
    /\ request.method = "POST"
    /\ LET raw == IF request.has_field THEN request.text ELSE <<>>
           r == RankAndRender(raw)
       IN  /\ available' = normalize_ingredients(raw)
           /\ recipes' = load_recipes
           /\ error' = r.error
           /\ response' = r.response
           /\ suggestions' = r.response.suggestions
    /\ pc' = "responded"
    /\ UNCHANGED <<days, selection, console, chosen, shopping, plan,
                   planner_calls, request>>

\* scan, without an uploaded file
ScanNoFile ==
    /\ pc = "start"
    /\ request.route = "/scan"
    /\ ~request.has_file
    /\ response' = Rendered(<<>>)
    /\ pc' = "responded"
    /\ UNCHANGED <<recipes, available, days, selection, console, suggestions,
                   chosen, shopping, plan, error, planner_calls, request>>

\* scan, with an uploaded file: text = scan_ocr(image)
ScanPost ==
    /\ pc = "start"
    /\ request.route = "/scan"
    /\ request.has_file
    /\ LET r == RankAndRender(request.text)
       IN  /\ available' = normalize_ingredients(request.text)
           /\ recipes' = load_recipes
           /\ error' = r.error
           /\ response' = r.response
           /\ suggestions' = r.response.suggestions
    /\ pc' = "responded"
    /\ UNCHANGED <<days, selection, console, chosen, shopping, plan,
                   planner_calls, request>>

NextWeb == IndexGet \/ IndexPost \/ ScanNoFile \/ ScanPost

SpecWeb == InitWeb /\ [][NextWeb]_vars

(* The command-line flow main() *)
Init ==
    /\ Idle
    /\ recipes = <<>>
    /\ available = <<>>
    /\ days = 0
    /\ selection = NoLine
    /\ request = NoRequest

\* Lines 168-189: welcome, read the ingredients, rank, print
MainSuggest ==
    /\ pc = "start"
    /\ \E line \in MainIngredientLines :
          /\ available' = ParseAvailable(line)
          /\ recipes' = load_recipes
          /\ suggestions' = suggest_recipes(load_recipes, ParseAvailable(line))
          /\ console' = console \o <<<<"Welcome to RecipeApp!">>, PromptIngredients>>
                        \o print_suggestions(suggest_recipes(load_recipes, ParseAvailable(line)))
    /\ pc' = "choose"
    /\ UNCHANGED <<days, selection, chosen, shopping, plan, error,
                   planner_calls, request, response>>

\* Lines 192-204: choose, then the shopping lists or "No recipes selected."
MainChoose ==
    /\ pc = "choose"
    /\ \E line \in MainSelectionLines :
          LET r == choose_recipes(suggestions, line) IN
          /\ selection' = line
          /\ chosen' = r.chosen
          /\ shopping' = IF r.chosen # <<>>
                         THEN generate_shopping_list(r.chosen[Len(r.chosen)], available)
                         ELSE shopping
          /\ console' = console \o r.out
                        \o (IF r.chosen # <<>>
                            THEN AllShoppingLines(r.chosen, available)
                            ELSE <<<<"No recipes selected.">>>>)
    /\ pc' = "ask"
    /\ UNCHANGED <<recipes, available, days, suggestions, plan, error,
                   planner_calls, request, response>>

\* Lines 207-218 when the question is asked and answered yes
MainPlan ==
    /\ pc = "ask"
    /\ AsksForPlan(chosen)
    /\ \E line \in MainAnswerLines :
          /\ SaysYes(line)
          /\ LET r == create_meal_plan(chosen, 7) IN
                /\ planner_calls' = Append(planner_calls, <<chosen, 7>>)
                /\ days' = 7
                /\ plan' = r.plan
                /\ error' = r.error
                /\ IF r.error = "none"
                   THEN /\ console' = console \o <<PromptPlan, <<"Your meal plan for the week:">>>>
                                      \o PlanLines(r.plan)
                                      \o <<<<"Thank you for using RecipeApp!">>>>
                        /\ pc' = "done"
                   ELSE /\ console' = console \o <<PromptPlan>>
                        /\ pc' = "raised"
    /\ UNCHANGED <<recipes, available, selection, suggestions, chosen, shopping,
                   request, response>>

\* Lines 207-218 when the question is asked and not answered yes
MainSkipPlan ==
    /\ pc = "ask"
    /\ AsksForPlan(chosen)
    /\ \E line \in MainAnswerLines :
          /\ ~SaysYes(line)
          /\ console' = console \o <<PromptPlan, <<"Meal plan skipped.">>,
                                     <<"Thank you for using RecipeApp!">>>>
    /\ pc' = "done"
    /\ UNCHANGED <<recipes, available, days, selection, suggestions, chosen,
                   shopping, plan, error, planner_calls, request, response>>

\* Line 219 when nothing was chosen
MainNoPlan ==
    /\ pc = "ask"
    /\ ~AsksForPlan(chosen)
    /\ console' = console \o <<<<"Thank you for using RecipeApp!">>>>
    /\ pc' = "done"
    /\ UNCHANGED <<recipes, available, days, selection, suggestions, chosen,
                   shopping, plan, error, planner_calls, request, response>>

Next == MainSuggest \/ MainChoose \/ MainPlan \/ MainSkipPlan \/ MainNoPlan

Spec == Init /\ [][Next]_vars

---------------------------------------------------------------------------
(* Properties *)

\* The k-th smallest element of a finite set of integers
KthOf(S, k) == CHOOSE i \in S : Cardinality({j \in S : j <= i}) = k

\* The elements of s at the positions in Keep, in their original order
Pick(s, Keep) == [k \in 1..Cardinality(Keep) |-> s[KthOf(Keep, k)]]

\* An ingredient is available when its lower-cased form is the lower-cased
\* form of some element of the available list
IsAvailable(ing, avail) == \E j \in DOMAIN avail : lower(ing) = lower(avail[j])

\* C1: suggest_recipes returns one (recipe, missing) pair per catalog recipe,
\* ordered by ascending number of missing ingredients, recipes of equal count
\* in their catalog order.
RankingIsStableAndComplete ==
    pc = "suggest_recipes" =>
        /\ Len(suggestions) = Len(recipes)
        /\ \E p \in Permutations(DOMAIN recipes) :
              /\ \A i \in DOMAIN recipes :
                    suggestions[i] =
                        <<recipes[p[i]], missing_ingredients(recipes[p[i]], available)>>
              /\ \A i, j \in DOMAIN recipes :
                    i < j =>
                        /\ Len(suggestions[i][2]) <= Len(suggestions[j][2])
                        /\ Len(suggestions[i][2]) = Len(suggestions[j][2]) => p[i] < p[j]

\* A catalog of three whose ranking moves the last recipe to the front and
\* leaves two recipes of equal count behind it
RankingWitness ==
    /\ pc = "suggest_recipes"
    /\ Len(recipes) = 3
    /\ suggestions[1][1] = recipes[3]
    /\ suggestions[2][1] = recipes[1]
    /\ Len(suggestions[2][2]) = Len(suggestions[3][2])
    /\ Len(suggestions[1][2]) < Len(suggestions[2][2])

\* C2: missing_ingredients and generate_shopping_list return exactly the
\* ingredients of the recipe that are not available under case-insensitive
\* comparison, in their original order; all of them when nothing is available.
MissingIsOrderedSubsequence ==
    pc \in {"missing_ingredients", "generate_shopping_list"} =>
        LET ings == recipes[1].ingredients
            Keep == {i \in DOMAIN ings : ~IsAvailable(ings[i], available)}
        IN  /\ shopping = Pick(ings, Keep)
            /\ available = <<>> => shopping = ings

\* A shopping list that keeps some ingredients and drops one that matches
\* only after lower-casing
MissingWitness ==
    /\ pc = "generate_shopping_list"
    /\ Len(shopping) = 2
    /\ Len(recipes[1].ingredients) = 3
    /\ recipes[1].ingredients[2] \notin Range(shopping)
    /\ recipes[1].ingredients[2] \notin Range(available)

\* C3: missing_ingredients returns the empty list exactly when every
\* ingredient of the recipe is available under case-insensitive comparison.
MissingEmptyIffAllAvailable ==
    pc \in {"missing_ingredients", "generate_shopping_list"} =>
        (shopping = <<>>
            <=> \A i \in DOMAIN recipes[1].ingredients :
                    IsAvailable(recipes[1].ingredients[i], available))

\* Nothing is missing although an upper-case ingredient and an upper-case
\* available token occur
AllAvailableWitness ==
    /\ pc = "missing_ingredients"
    /\ shopping = <<>>
    /\ EggUpper \in Range(recipes[1].ingredients)
    /\ Salt \in Range(recipes[1].ingredients)
    /\ available = <<Egg, SaltCap>>

\* The token of a selection line is valid for n suggestions
IsValidToken(part, n) == IsInt(part) /\ 1 <= int(part) /\ int(part) <= n

\* The 1-based indices of the valid tokens of a selection line, in order
ValidIndices(line, n) ==
    LET valid == SelectSeq(Parts(line.text), LAMBDA part : IsValidToken(part, n))
    IN  [k \in DOMAIN valid |-> int(valid[k])]

\* C4: choose_recipes returns no two recipes of the same name, in the order
\* of their first valid occurrence in the selection line.
ChosenIsDeduplicatedInSelectionOrder ==
    pc = "choose_recipes" =>
        LET V == ValidIndices(selection, Len(suggestions))
            Firsts == {k \in DOMAIN V :
                          \A h \in 1..(k - 1) :
                              suggestions[V[h]][1].name # suggestions[V[k]][1].name}
        IN  /\ \A i, j \in DOMAIN chosen : i # j => chosen[i].name # chosen[j].name
            /\ chosen = [m \in 1..Cardinality(Firsts) |->
                            suggestions[V[KthOf(Firsts, m)]][1]]

\* The second suggestion chosen first, the first one second, the second again
SelectionOrderWitness ==
    /\ pc = "choose_recipes"
    /\ ValidIndices(selection, Len(suggestions)) = <<2, 1, 2>>
    /\ chosen = <<suggestions[2][1], suggestions[1][1]>>

\* s joined by commas
RECURSIVE JoinComma(_)
JoinComma(s) ==
    IF s = <<>> THEN <<>>
    ELSE IF Len(s) = 1 THEN s[1]
    ELSE s[1] \o <<",">> \o JoinComma(Tail(s))

InvalidTokens(line, n) ==
    SelectSeq(Parts(line.text), LAMBDA part : ~IsValidToken(part, n))

\* The selection line with every invalid token removed
WithoutInvalidTokens(line, n) ==
    Line(JoinComma(SelectSeq(Parts(line.text), LAMBDA part : IsValidToken(part, n))))

\* C6: each invalid token of the selection line is reported by one warning
\* and skipped; the list returned is the one the line without its invalid
\* tokens gives.
InvalidTokensAreSkipped ==
    pc = "choose_recipes" =>
        /\ Len(console) = 1 + Len(InvalidTokens(selection, Len(suggestions)))
        /\ chosen =
             choose_recipes(suggestions,
                 WithoutInvalidTokens(selection, Len(suggestions))).chosen

\* A valid token, an invalid one, another valid one: both valid ones chosen
SkippedTokenWitness ==
    /\ pc = "choose_recipes"
    /\ Len(Parts(selection.text)) = 3
    /\ IsValidToken(Parts(selection.text)[1], Len(suggestions))
    /\ ~IsValidToken(Parts(selection.text)[2], Len(suggestions))
    /\ IsValidToken(Parts(selection.text)[3], Len(suggestions))
    /\ Len(chosen) = 2
    /\ Len(console) = 2

\* The warning line printed for an invalid token
WarningFor(part) ==
    IF IsInt(part) THEN <<"Ignoring invalid recipe number: ", int(part)>>
    ELSE <<"Ignoring invalid input: ", part>>

\* C9 as stated: choose_recipes writes nothing to the console.
SelectorPerformsNoIO ==
    pc = "choose_recipes" => console = <<>>

\* C9 as amended: choose_recipes writes its prompt and then one warning line
\* per invalid token, in token order, to the console; what it returns holds
\* recipes of the suggestion list only.
SelectorWarnsOnConsole ==
    pc = "choose_recipes" =>
        LET bad == InvalidTokens(selection, Len(suggestions)) IN
        /\ console = <<PromptSelect>> \o [k \in DOMAIN bad |-> WarningFor(bad[k])]
        /\ \A i \in DOMAIN chosen :
              \E j \in DOMAIN suggestions : chosen[i] = suggestions[j][1]

\* An out-of-range number and a non-integer both reported, one recipe returned
ConsoleWarningWitness ==
    /\ pc = "choose_recipes"
    /\ Len(console) = 3
    /\ console[2][1] = "Ignoring invalid recipe number: "
    /\ console[3][1] = "Ignoring invalid input: "
    /\ Len(chosen) = 1

\* C10: main() calls create_meal_plan only with a non-empty list of chosen
\* recipes; with nothing chosen the run ends without a plan and without an
\* exception.
PlannerOnlyCalledWithChosen ==
    /\ \A k \in DOMAIN planner_calls : planner_calls[k][1] # <<>>
    /\ error = "none"
    /\ (pc = "done" /\ chosen = <<>>) => (planner_calls = <<>> /\ plan = <<>>)

\* A run that chose recipes after an invalid token and planned the week
PlannerCalledWitness ==
    /\ pc = "done"
    /\ planner_calls = <<<<chosen, 7>>>>
    /\ Len(chosen) = 1
    /\ Len(plan) = 7
    /\ Len(InvalidTokens(selection, Len(suggestions))) = 1

\* C5: for a non-empty recipe list, the plan has an entry for weekday i
\* exactly when 0 <= i < min(days, 7), equal to recipes[i mod len(recipes)],
\* the keys in weekday order.
PlanCoversFirstDays ==
    (pc # "start" /\ recipes # <<>>) =>
        /\ error = "none"
        /\ plan = [k \in 1..Max(Min(days, Len(DayNames)), 0) |->
                      <<DayNames[k], recipes[((k - 1) % Len(recipes)) + 1]>>]

\* C7: create_meal_plan with an empty recipe list raises, whatever days is.
EmptyPlanFailsFast ==
    (pc # "start" /\ recipes = <<>>) => (pc = "raised" /\ error # "none")

\* C8: a POST handler that has tokens renders suggest_recipes(catalog, tokens)
\* and does not raise.
WebUsesSameRanking ==
    (/\ pc = "responded"
     /\ request.method = "POST"
     /\ (request.route = "/scan" => request.has_file)) =>
        /\ error = "none"
        /\ response =
             Rendered(suggest_recipes(load_recipes, normalize_ingredients(request.text)))

====
